---- MODULE Spec2Model ----
(***************************************************************************)
(* A model of fingerproxy.go: the resolution of the process settings from  *)
(* flags and environment, the startup sequence of Run, the lifecycle of    *)
(* the TLS-terminating proxy server under the signal context, and the      *)
(* request path of the reverse-proxy handler with its header injectors     *)
(* and its error handler.                                                  *)
(*                                                                         *)
(* Strings whose characters matter (environment values, defaults) are      *)
(* sequences of one-character strings, so that strings.ToLower is computed *)
(* character by character.                                                 *)
(***************************************************************************)
EXTENDS Integers, Sequences, FiniteSets, TLC

VARIABLES
    env,        \* the process environment: key -> (value, ok) as os.LookupEnv returns
    args,       \* the command line: flags given with their values
    cfg,        \* the settings Run resolved (the *flagXxx values after flag.Parse)
    pc,         \* Run's position
    exit,       \* how the process / Run ended: running, exit0, exit1, exit2, returned, killed
    log,        \* the lines written to the loggers and stderr, in order
    urlOK,      \* whether url.Parse accepted the forward URL (unknown before the step)
    tlsOK,      \* whether tls.LoadX509KeyPair loaded the key pair
    tlsConfig,  \* the *tls.Config DefaultTLSConfig returned
    bindOK,     \* whether the proxy listener could be bound
    handler,    \* the reverseproxy.HTTPHandler Run built
    server,     \* the proxyserver.Server Run built
    sigRegistered, \* signal.NotifyContext has registered its handler
    notifyCtxDone, \* the context signal.NotifyContext returned is cancelled
    signalled,  \* a termination signal has been delivered to the process
    metrics,    \* the metrics endpoint: none, started (goroutine launched), bound, failed
    debugStarted, \* debug.StartDebugServer has been called
    srvState,   \* Created, Listening, ShuttingDown, Stopped, BindFailed
    conns,      \* connection slot -> [st, timer]
    rq,         \* the request the handler is serving
    rw,         \* the response writer of that request
    reqNo       \* the number of requests the handler has been given

vars == << env, args, cfg, pc, exit, log, urlOK, tlsOK, tlsConfig, bindOK, handler, server,
           sigRegistered, notifyCtxDone, signalled, metrics, debugStarted,
           srvState, conns, rq, rw, reqNo >>

cfgVars == << env, args, cfg >>
runVars == << pc, exit, log, urlOK, tlsOK, tlsConfig, bindOK, handler, server,
              sigRegistered, notifyCtxDone, signalled, metrics, debugStarted,
              srvState, conns >>
runVarsButConns == << pc, exit, log, urlOK, tlsOK, tlsConfig, bindOK, handler, server,
                      sigRegistered, notifyCtxDone, signalled, metrics, debugStarted,
                      srvState >>
reqVars == << rq, rw, reqNo >>

(***************************************************************************)
(* Bounds of the model.                                                    *)
(***************************************************************************)
MaxEnvSet == 1
MaxFlagsGiven == 1
MaxConns == 2
MaxRequests == 2
MaxErrDepth == 3

Nil == "nil"

(***************************************************************************)
(* Program constants (seconds).                                            *)
(***************************************************************************)
HTTPIdleTimeout == 180
HTTPReadTimeout == 60
HTTPWriteTimeout == 60
TLSHandshakeTimeout == 10

(***************************************************************************)
(* Strings as character sequences.                                         *)
(***************************************************************************)
sTrue == << "t", "r", "u", "e" >>
sFalse == << "f", "a", "l", "s", "e" >>
sTRUE == << "T", "R", "U", "E" >>
sFaLsE == << "F", "a", "L", "s", "E" >>
sYes == << "y", "e", "s" >>
sEmpty == << >>
sAddr == << ":", "8", "0" >>
sFlagVal == << "c", "l", "i" >>

LowerOf == [ c \in { "T", "R", "U", "E", "F", "L", "A", "S", "Y" } |->
               CASE c = "T" -> "t" [] c = "R" -> "r" [] c = "U" -> "u"
                 [] c = "E" -> "e" [] c = "F" -> "f" [] c = "L" -> "l"
                 [] c = "A" -> "a" [] c = "S" -> "s" [] c = "Y" -> "y" ]

\* unicode.ToLower on one character: upper-case letters map to lower case,
\* everything else is unchanged.
ToLowerChar(c) == IF c \in DOMAIN LowerOf THEN LowerOf[c] ELSE c

\* strings.ToLower
ToLower(s) == [ i \in 1..Len(s) |-> ToLowerChar(s[i]) ]

(***************************************************************************)
(* Settings.                                                               *)
(***************************************************************************)
StrFlags == { "listen-addr", "forward-url", "cert-filename", "certkey-filename",
              "metrics-listen-addr" }
BoolFlags == { "enable-kubernetes-probe", "verbose" }
Flags == StrFlags \cup BoolFlags

\* the environment variable each flag.String / flag.Bool call of Run reads
EnvKey(f) ==
    CASE f = "listen-addr" -> "LISTEN_ADDR"
      [] f = "forward-url" -> "FORWARD_URL"
      [] f = "cert-filename" -> "CERT_FILENAME"
      [] f = "certkey-filename" -> "CERTKEY_FILENAME"
      [] f = "metrics-listen-addr" -> "METRICS_LISTEN_ADDR"
      [] f = "enable-kubernetes-probe" -> "ENABLE_KUBERNETES_PROBE"
      [] f = "verbose" -> "VERBOSE"

EnvKeys == { EnvKey(f) : f \in Flags }

\* the default each flag.String call passes to envWithDefault
DefaultStr(f) ==
    CASE f = "listen-addr" -> << ":", "4", "4", "3" >>
      [] f = "forward-url" ->
           << "h", "t", "t", "p", ":", "/", "/", "l", "o", "c", "a", "l", "h",
              "o", "s", "t", ":", "8", "0" >>
      [] f = "cert-filename" -> << "t", "l", "s", ".", "c", "r", "t" >>
      [] f = "certkey-filename" -> << "t", "l", "s", ".", "k", "e", "y" >>
      [] f = "metrics-listen-addr" -> << ":", "9", "0", "3", "5" >>

\* the default each flag.Bool call passes to envWithDefaultBool
DefaultBool(f) ==
    CASE f = "enable-kubernetes-probe" -> TRUE
      [] f = "verbose" -> FALSE

\* os.LookupEnv
LookupEnv(key) == env[key]

envWithDefault(key, defaultVal) ==
    IF LookupEnv(key).ok THEN LookupEnv(key).val ELSE defaultVal

\* a case-sensitive comparison: "TRUE" and "False" fall through to the default
envWithDefaultBool_CaseSensitive(key, defaultVal) ==
    IF LookupEnv(key).ok
    THEN IF LookupEnv(key).val = sTrue THEN TRUE
         ELSE IF LookupEnv(key).val = sFalse THEN FALSE
         ELSE defaultVal
    ELSE defaultVal

envWithDefaultBool(key, defaultVal) ==
    IF LookupEnv(key).ok
    THEN IF ToLower(LookupEnv(key).val) = sTrue THEN TRUE
         ELSE IF ToLower(LookupEnv(key).val) = sFalse THEN FALSE
         ELSE defaultVal
    ELSE defaultVal

\* the value a flag holds after flag.Parse: the command line's when the flag
\* is given, the default it was defined with otherwise
FlagValue(f, defaultVal) ==
    IF args.given[f].ok THEN args.given[f].val ELSE defaultVal

\* Run, the flag definitions and flag.Parse: every setting's resolved value
ResolveSettings ==
    [ f \in Flags |->
        IF f \in StrFlags
        THEN FlagValue(f, envWithDefault(EnvKey(f), DefaultStr(f)))
        ELSE FlagValue(f, envWithDefaultBool(EnvKey(f), DefaultBool(f))) ]

Unparsed == [ parsed |-> FALSE ]

(***************************************************************************)
(* The inputs: environments and command lines.                             *)
(***************************************************************************)
EnvVals == { sTrue, sTRUE, sFaLsE, sYes, sEmpty, sAddr }
NotSet == [ ok |-> FALSE, val |-> sEmpty ]

SmallSubsets(S, n) == { K \in SUBSET S : Cardinality(K) <= n }

Environments ==
    UNION { { [ k \in EnvKeys |-> IF k \in K THEN [ ok |-> TRUE, val |-> e[k] ] ELSE NotSet ]
              : e \in [ K -> EnvVals ] }
            : K \in SmallSubsets(EnvKeys, MaxEnvSet) }

\* the values a flag is given on the command line: a string flag's text, a bool
\* flag's parsed value (-flag, -flag=false)
FlagValOf(f, i) ==
    IF f \in StrFlags THEN (IF i = 1 THEN sFlagVal ELSE sEmpty) ELSE (i = 1)
NotGiven == [ ok |-> FALSE, val |-> sEmpty ]

GivenFlags ==
    UNION { { [ f \in Flags |-> IF f \in K THEN [ ok |-> TRUE, val |-> FlagValOf(f, g[f]) ]
                                           ELSE NotGiven ]
              : g \in [ K -> { 1, 2 } ] }
            : K \in SmallSubsets(Flags, MaxFlagsGiven) }

NoFlags == [ f \in Flags |-> NotGiven ]
NoEnv == [ k \in EnvKeys |-> NotSet ]


\* the command lines and environments a run of the whole program starts from
RunArgs ==
    { [ given |-> NoFlags, version |-> FALSE, bad |-> FALSE ],
      [ given |-> NoFlags, version |-> TRUE, bad |-> FALSE ],
      [ given |-> NoFlags, version |-> FALSE, bad |-> TRUE ] }
RunEnvs == { NoEnv }

(***************************************************************************)
(* The objects Run builds.                                                 *)
(***************************************************************************)
\* the second injector carrying the first one's header name
DefaultHeaderInjectors_DuplicateName ==
    << [ name |-> "X-JA3-Fingerprint", fn |-> "JA3Fingerprint" ],
       [ name |-> "X-JA3-Fingerprint", fn |-> "JA4Fingerprint" ],
       [ name |-> "X-HTTP2-Fingerprint", fn |-> "HTTP2Fingerprint" ] >>

DefaultHeaderInjectors ==
    << [ name |-> "X-JA3-Fingerprint", fn |-> "JA3Fingerprint" ],
       [ name |-> "X-JA4-Fingerprint", fn |-> "JA4Fingerprint" ],
       [ name |-> "X-HTTP2-Fingerprint", fn |-> "HTTP2Fingerprint" ] >>

GetHeaderInjectors == DefaultHeaderInjectors

\* the handler built without the injectors
DefaultReverseProxyHTTPHandler_NoInjectors(forwardTo) ==
    [ To |-> forwardTo,
      ErrorHandler |-> "proxyErrorHandler",
      headerInjectors |-> << >>,
      IsProbeRequest |-> Nil ]

DefaultReverseProxyHTTPHandler(forwardTo) ==
    [ To |-> forwardTo,
      ErrorHandler |-> "proxyErrorHandler",
      headerInjectors |-> GetHeaderInjectors,
      IsProbeRequest |-> Nil ]

GetReverseProxyHTTPHandler(forwardTo) == DefaultReverseProxyHTTPHandler(forwardTo)

\* the probe predicate never installed
SetProbe_Never(h, flagEnableKubernetesProbe) == h

\* Run: handler.IsProbeRequest is set only when the probe flag is on
SetProbe(h, flagEnableKubernetesProbe) ==
    IF flagEnableKubernetesProbe
    THEN [ h EXCEPT !.IsProbeRequest = "IsKubernetesProbeRequest" ]
    ELSE h

TLSConf ==
    [ NextProtos |-> << "h2", "http/1.1" >>, MinVersion |-> "TLS1.2",
      MaxVersion |-> "TLS1.3", Certificates |-> << "tlsCert" >> ]
NoTLSConf ==
    [ NextProtos |-> << >>, MinVersion |-> Nil, MaxVersion |-> Nil, Certificates |-> << >> ]

\* the error of tls.LoadX509KeyPair dropped
DefaultTLSConfig_ErrorDropped(loaded) ==
    [ conf |-> TLSConf, err |-> Nil ]

\* loaded: whether tls.LoadX509KeyPair read the pair
DefaultTLSConfig(loaded) ==
    IF ~loaded
    THEN [ conf |-> NoTLSConf, err |-> "tls: failed to load key pair" ]
    ELSE [ conf |-> TLSConf, err |-> Nil ]

\* SIGTERM left out of the registration
NotifySignals_InterruptOnly == { "SIGINT" }

\* the signals signal.NotifyContext is given
NotifySignals == { "SIGINT", "SIGTERM" }
TerminationSignals == { "SIGINT", "SIGTERM" }

\* the server given a context no signal cancels
DefaultProxyServer_BackgroundCtx(h, tlsConf, verboseLogs) ==
    [ ctx |-> "background",
      handler |-> h,
      tlsConfig |-> tlsConf,
      VerboseLogs |-> verboseLogs,
      IdleTimeout |-> HTTPIdleTimeout,
      ReadTimeout |-> HTTPReadTimeout,
      WriteTimeout |-> HTTPWriteTimeout,
      TLSHandshakeTimeout |-> TLSHandshakeTimeout ]

\* the handshake timeout assigned from the read timeout
DefaultProxyServer_HandshakeReadTimeout(h, tlsConf, verboseLogs) ==
    [ ctx |-> "notifyCtx",
      handler |-> h,
      tlsConfig |-> tlsConf,
      VerboseLogs |-> verboseLogs,
      IdleTimeout |-> HTTPIdleTimeout,
      ReadTimeout |-> HTTPReadTimeout,
      WriteTimeout |-> HTTPWriteTimeout,
      TLSHandshakeTimeout |-> HTTPReadTimeout ]

DefaultProxyServer(h, tlsConf, verboseLogs) ==
    [ ctx |-> "notifyCtx",
      handler |-> h,
      tlsConfig |-> tlsConf,
      VerboseLogs |-> verboseLogs,
      IdleTimeout |-> HTTPIdleTimeout,
      ReadTimeout |-> HTTPReadTimeout,
      WriteTimeout |-> HTTPWriteTimeout,
      TLSHandshakeTimeout |-> TLSHandshakeTimeout ]

NoHandler == [ To |-> sEmpty, ErrorHandler |-> Nil, headerInjectors |-> << >>,
               IsProbeRequest |-> Nil ]
NoServer == [ ctx |-> Nil ]

Alive == exit = "running"
Line(logger, msg) == [ logger |-> logger, msg |-> msg ]

(***************************************************************************)
(* Run, step by step.                                                      *)
(***************************************************************************)
\* the flag definitions, flag.Parse and the version query
RunParseFlags ==
    /\ pc = "start" /\ Alive
    /\ IF args.bad
       THEN /\ log' = Append(log, Line("stderr", "flag: parse error"))
            /\ exit' = "exit2"
            /\ pc' = "exited"
            /\ cfg' = cfg
       ELSE /\ cfg' = [ parsed |-> TRUE, val |-> ResolveSettings ]
            /\ IF args.version
               THEN /\ log' = Append(log, Line("stderr", "version"))
                    /\ exit' = "exit0"
                    /\ pc' = "exited"
               ELSE /\ pc' = "parseURL"
                    /\ UNCHANGED << log, exit >>
    /\ UNCHANGED << env, args, urlOK, tlsOK, tlsConfig, bindOK, handler, server, sigRegistered,
                    notifyCtxDone, signalled, metrics, debugStarted, srvState, conns >>
    /\ UNCHANGED reqVars

\* url.Parse(*flagForwardURL)
RunParseURL ==
    /\ pc = "parseURL" /\ Alive
    /\ \E ok \in BOOLEAN :
         IF ok
         THEN /\ urlOK' = "ok"
              /\ pc' = "loadTLS"
              /\ UNCHANGED << log, exit >>
         ELSE /\ urlOK' = "failed"
              /\ log' = Append(log, Line("fingerproxy", "fatal: url parse error"))
              /\ exit' = "exit1"
              /\ pc' = "exited"
    /\ UNCHANGED << tlsOK, tlsConfig, bindOK, handler, server, sigRegistered,
                    notifyCtxDone, signalled, metrics, debugStarted, srvState, conns >>
    /\ UNCHANGED << cfgVars, reqVars >>

\* DefaultTLSConfig(*flagCertFilename, *flagKeyFilename)
RunLoadTLS ==
    /\ pc = "loadTLS" /\ Alive
    /\ \E loaded \in BOOLEAN :
         LET r == DefaultTLSConfig(loaded) IN
         /\ tlsOK' = IF loaded THEN "ok" ELSE "failed"
         /\ tlsConfig' = r.conf
         /\ IF r.err # Nil
            THEN /\ log' = Append(log, Line("fingerproxy", "fatal: tls load error"))
                 /\ exit' = "exit1"
                 /\ pc' = "exited"
            ELSE /\ pc' = "buildHandler"
                 /\ UNCHANGED << log, exit >>
    /\ UNCHANGED << urlOK, bindOK, handler, server, sigRegistered,
                    notifyCtxDone, signalled, metrics, debugStarted, srvState, conns >>
    /\ UNCHANGED << cfgVars, reqVars >>

\* InitFingerprint, GetReverseProxyHTTPHandler and the probe predicate
RunBuildHandler ==
    /\ pc = "buildHandler" /\ Alive
    /\ handler' = SetProbe(GetReverseProxyHTTPHandler(cfg.val["forward-url"]),
                           cfg.val["enable-kubernetes-probe"])
    /\ pc' = "newServer"
    /\ UNCHANGED << exit, log, urlOK, tlsOK, tlsConfig, bindOK, server, sigRegistered,
                    notifyCtxDone, signalled, metrics, debugStarted, srvState, conns >>
    /\ UNCHANGED << cfgVars, reqVars >>

\* DefaultProxyServer: signal.NotifyContext registers the handler, NewServer
\* gets the context
RunNewServer ==
    /\ pc = "newServer" /\ Alive
    /\ server' = DefaultProxyServer(handler, tlsConfig,
                                    cfg.val["verbose"])
    /\ sigRegistered' = TRUE
    /\ pc' = "startMetrics"
    /\ UNCHANGED << exit, log, urlOK, tlsOK, tlsConfig, bindOK, handler,
                    notifyCtxDone, signalled, metrics, debugStarted, srvState, conns >>
    /\ UNCHANGED << cfgVars, reqVars >>

\* StartPrometheusClient: logs, then serves from a goroutine
RunStartMetrics ==
    /\ pc = "startMetrics" /\ Alive
    /\ log' = Append(log, Line("metrics", "server listening"))
    /\ metrics' = "started"
    /\ pc' = "startDebug"
    /\ UNCHANGED << exit, urlOK, tlsOK, tlsConfig, bindOK, handler, server, sigRegistered,
                    notifyCtxDone, signalled, debugStarted, srvState, conns >>
    /\ UNCHANGED << cfgVars, reqVars >>

\* the goroutine of StartPrometheusClient: http.ListenAndServe, its error dropped
MetricsServe ==
    /\ metrics = "started" /\ Alive
    /\ \E ok \in BOOLEAN : metrics' = IF ok THEN "bound" ELSE "failed"
    /\ UNCHANGED << pc, exit, log, urlOK, tlsOK, tlsConfig, bindOK, handler, server, sigRegistered,
                    notifyCtxDone, signalled, debugStarted, srvState, conns >>
    /\ UNCHANGED << cfgVars, reqVars >>

\* debug.StartDebugServer()
RunStartDebug ==
    /\ pc = "startDebug" /\ Alive
    /\ debugStarted' = TRUE
    /\ pc' = "listen"
    /\ UNCHANGED << exit, log, urlOK, tlsOK, tlsConfig, bindOK, handler, server, sigRegistered,
                    notifyCtxDone, signalled, metrics, srvState, conns >>
    /\ UNCHANGED << cfgVars, reqVars >>

\* the log line and server.ListenAndServe up to the bind
RunListen ==
    /\ pc = "listen" /\ Alive
    /\ \E ok \in BOOLEAN :
         IF ok
         THEN /\ bindOK' = "ok"
              /\ srvState' = [ st |-> "Listening", err |-> Nil ]
              /\ pc' = "serving"
         ELSE /\ bindOK' = "failed"
              /\ srvState' = [ st |-> "BindFailed", err |-> "listen: bind error" ]
              /\ pc' = "listenReturned"
    /\ log' = Append(log, Line("fingerproxy", "server listening"))
    /\ UNCHANGED << exit, urlOK, tlsOK, tlsConfig, handler, server, sigRegistered,
                    notifyCtxDone, signalled, metrics, debugStarted, conns >>
    /\ UNCHANGED << cfgVars, reqVars >>

\* DefaultLog.Print(err), and Run returns
RunLogReturn ==
    /\ pc = "listenReturned" /\ Alive
    /\ log' = Append(log, Line("fingerproxy", srvState.err))
    /\ exit' = "returned"
    /\ pc' = "done"
    /\ UNCHANGED << urlOK, tlsOK, tlsConfig, bindOK, handler, server, sigRegistered,
                    notifyCtxDone, signalled, metrics, debugStarted, srvState, conns >>
    /\ UNCHANGED << cfgVars, reqVars >>


(***************************************************************************)
(* The request path: the handler's ServeHTTP (pkg/reverseproxy, from its   *)
(* specified contract), the forwarding mechanism and the error handler.    *)
(***************************************************************************)
StatusOK == 200
StatusBadGateway == 502
StatusGatewayTimeout == 504

Absent == "<absent>"
HeaderNames == { "X-JA3-Fingerprint", "X-JA4-Fingerprint", "X-HTTP2-Fingerprint",
                 "User-Agent" }
FpFuncs == { "JA3Fingerprint", "JA4Fingerprint", "HTTP2Fingerprint" }
\* what a fingerprint function returns for a connection: (value, ok)
FpResults == { [ ok |-> FALSE, val |-> "" ], [ ok |-> TRUE, val |-> "fpA" ],
               [ ok |-> TRUE, val |-> "fpB" ] }
\* the headers a client sends: it may send a fingerprint header of its own
InHeaders ==
    { [ h \in HeaderNames |-> IF h = "User-Agent" THEN "agent" ELSE Absent ],
      [ h \in HeaderNames |-> IF h = "User-Agent" THEN "agent"
                              ELSE IF h = "X-JA3-Fingerprint" THEN "spoofed" ELSE Absent ] }

\* errors as chains, outermost first: wrappers around a leaf
ErrWrappers == { "url.Error", "fmt.wrapError" }
ErrLeaves == { "context.DeadlineExceeded", "context.Canceled", "connection refused",
               "i/o timeout" }
Errors ==
    UNION { { w \o << l >> : w \in [ 1..n -> ErrWrappers ], l \in ErrLeaves }
            : n \in 0..(MaxErrDepth - 1) }
NoErr == << >>

\* errors.Is: the chain is unwrapped until the target is met
RECURSIVE ErrorsIs(_, _)
ErrorsIs(err, target) ==
    IF err = << >> THEN FALSE
    ELSE IF Head(err) = target THEN TRUE
    ELSE ErrorsIs(Tail(err), target)

\* a handler that forgets the cancelled case
proxyErrorHandler_OnlyDeadline(w, r, err) ==
    [ rw |-> [ w EXCEPT !.status =
                 Append(@, IF ErrorsIs(err, "context.DeadlineExceeded")
                           THEN StatusGatewayTimeout ELSE StatusBadGateway) ],
      log |-> << Line("reverseproxy", << "proxy error", r.url, r.remoteAddr, err >>) >> ]

\* proxyErrorHandler(rw, req, err): the log line, then one WriteHeader
proxyErrorHandler(w, r, err) ==
    [ rw |-> [ w EXCEPT !.status =
                 Append(@, IF \/ ErrorsIs(err, "context.DeadlineExceeded")
                              \/ ErrorsIs(err, "context.Canceled")
                           THEN StatusGatewayTimeout ELSE StatusBadGateway) ],
      log |-> << Line("reverseproxy", << "proxy error", r.url, r.remoteAddr, err >>) >> ]

NoRequest ==
    [ pc |-> "none", probe |-> FALSE, url |-> "/", remoteAddr |-> "client",
      inHdr |-> [ h \in HeaderNames |-> Absent ],
      outHdr |-> [ h \in HeaderNames |-> Absent ],
      fp |-> [ f \in FpFuncs |-> [ ok |-> FALSE, val |-> "" ] ],
      idx |-> 0, order |-> << >>, forwarded |-> FALSE, err |-> NoErr, log |-> << >> ]
NoResponse == [ status |-> << >>, body |-> << >> ]

Handling == pc = "serving" /\ Alive /\ srvState.st = "Listening"

\* the connection the requests of the request path arrive on
ReqConn == 1
ConnInFlight ==
    [ conns EXCEPT ![ReqConn] = [ st |-> "inflight", timer |-> 0, why |-> "none", sig |-> FALSE ] ]
ConnDone ==
    [ conns EXCEPT ![ReqConn] = [ @ EXCEPT !.st = "idle", !.timer = 0, !.why = "completed" ] ]

\* a request arrives: the client's headers, whether the probe predicate holds
\* of it, and what each fingerprint function yields for its connection
NewRequest ==
    /\ Handling
    /\ rq.pc \in { "none", "done" }
    /\ reqNo < MaxRequests
    /\ \E probe \in BOOLEAN, hdr \in InHeaders, fp \in [ FpFuncs -> FpResults ] :
         rq' = [ NoRequest EXCEPT !.pc = "probeCheck", !.probe = probe, !.inHdr = hdr,
                                  !.outHdr = hdr, !.fp = fp ]
    /\ conns[ReqConn].st = "idle"
    /\ conns' = ConnInFlight
    /\ rw' = NoResponse
    /\ reqNo' = reqNo + 1
    /\ UNCHANGED << cfgVars, runVarsButConns >>

\* ServeHTTP: the probe predicate first; a probe is answered at once
ServeProbeCheck ==
    /\ Handling
    /\ rq.pc = "probeCheck"
    /\ IF handler.IsProbeRequest # Nil /\ rq.probe
       THEN /\ rq' = [ rq EXCEPT !.pc = "done" ]
            /\ rw' = [ rw EXCEPT !.status = Append(@, StatusOK) ]
            /\ conns' = ConnDone
       ELSE /\ rq' = [ rq EXCEPT !.pc = "inject", !.idx = 1 ]
            /\ rw' = rw
            /\ conns' = conns
    /\ UNCHANGED << reqNo, cfgVars, runVarsButConns >>

\* the next injector of the pipeline: the header is set when the fingerprint
\* function succeeds, and left alone when it fails
ServeInject ==
    /\ Handling
    /\ rq.pc = "inject"
    /\ rq.idx <= Len(handler.headerInjectors)
    /\ LET hj == handler.headerInjectors[rq.idx]
           r == rq.fp[hj.fn]
       IN rq' = [ rq EXCEPT !.idx = @ + 1,
                            !.order = Append(@, hj.name),
                            !.outHdr = IF r.ok THEN [ @ EXCEPT ![hj.name] = r.val ] ELSE @,
                            !.log = IF r.ok THEN @
                                    ELSE Append(@, Line("fingerprint", << "failed", hj.name >>)) ]
    /\ UNCHANGED << rw, reqNo, cfgVars, runVars >>

\* the pipeline is through: the request goes to the forwarding mechanism
ServeForward ==
    /\ Handling
    /\ rq.pc = "inject"
    /\ rq.idx > Len(handler.headerInjectors)
    /\ rq' = [ rq EXCEPT !.pc = "forwarding", !.forwarded = TRUE ]
    /\ UNCHANGED << rw, reqNo, cfgVars, runVars >>

\* the backend answers and the response is relayed
BackendResponds ==
    /\ Handling
    /\ rq.pc = "forwarding"
    /\ rq' = [ rq EXCEPT !.pc = "done" ]
    /\ rw' = [ rw EXCEPT !.status = Append(@, StatusOK), !.body = Append(@, "backend body") ]
    /\ conns' = ConnDone
    /\ UNCHANGED << reqNo, cfgVars, runVarsButConns >>

\* the round trip fails: httputil.ReverseProxy calls its ErrorHandler
BackendFails ==
    /\ Handling
    /\ rq.pc = "forwarding"
    /\ \E err \in Errors :
         LET out == IF handler.ErrorHandler = "proxyErrorHandler"
                    THEN proxyErrorHandler(rw, rq, err)
                    ELSE [ rw |-> [ rw EXCEPT !.status = Append(@, StatusBadGateway) ],
                           log |-> << Line("reverseproxy", << "http: proxy error", err >>) >> ]
         IN /\ rw' = out.rw
            /\ rq' = [ rq EXCEPT !.pc = "done", !.err = err, !.log = @ \o out.log ]
    /\ conns' = ConnDone
    /\ UNCHANGED << reqNo, cfgVars, runVarsButConns >>

(***************************************************************************)
(* Signals.  A signal NotifyContext was given cancels its context; any     *)
(* other termination signal, or one that arrives before the registration,  *)
(* has its default disposition: the process dies at once, whatever its     *)
(* connections are doing.                                                  *)
(***************************************************************************)
Open(c) == conns[c].st \in { "handshaking", "idle", "inflight" }

\* a request in flight when the first signal arrives is marked
MarkAtSignal(c) ==
    IF conns[c].st = "inflight" /\ ~signalled THEN [ conns[c] EXCEPT !.sig = TRUE ]
    ELSE conns[c]

Killed(c) ==
    IF Open(c) THEN [ MarkAtSignal(c) EXCEPT !.st = "closed", !.why = "cutoff" ]
    ELSE conns[c]

Signal ==
    /\ Alive
    /\ \E s \in TerminationSignals :
         IF sigRegistered /\ s \in NotifySignals
         THEN /\ notifyCtxDone' = TRUE
              /\ conns' = [ c \in DOMAIN conns |-> MarkAtSignal(c) ]
              /\ UNCHANGED << exit, pc, srvState >>
         ELSE /\ exit' = "killed"
              /\ pc' = pc
              /\ conns' = [ c \in DOMAIN conns |-> Killed(c) ]
              /\ srvState' = IF srvState.st \in { "Listening", "ShuttingDown" }
                             THEN [ srvState EXCEPT !.st = "Stopped" ] ELSE srvState
              /\ UNCHANGED notifyCtxDone
    /\ signalled' = TRUE
    /\ UNCHANGED << log, urlOK, tlsOK, tlsConfig, bindOK, handler, server, sigRegistered,
                    metrics, debugStarted >>
    /\ UNCHANGED << cfgVars, reqVars >>


(***************************************************************************)
(* The proxy server (pkg/proxyserver), from its specified state machine:   *)
(* Created -> Listening -> (per connection: handshake, serve) ->           *)
(* ShuttingDown -> Stopped.  Time advances in seconds.                     *)
(***************************************************************************)
Conns == 1..MaxConns
FreeConn == [ st |-> "free", timer |-> 0, why |-> "none", sig |-> FALSE ]

\* the server's lifecycle context is done
CtxDone == server.ctx = "notifyCtx" /\ notifyCtxDone

Serving == pc = "serving" /\ Alive

srvUnchanged == << pc, exit, log, urlOK, tlsOK, tlsConfig, bindOK, handler, server,
                   sigRegistered, notifyCtxDone, signalled, metrics, debugStarted >>

\* the accept loop takes a connection; it runs while the context is live
Accept(c) ==
    /\ Serving
    /\ srvState.st = "Listening" /\ ~CtxDone
    /\ conns[c].st = "free"
    /\ \A d \in Conns : d < c => conns[d].st # "free"
    /\ conns' = [ conns EXCEPT ![c] = [ FreeConn EXCEPT !.st = "handshaking" ] ]
    /\ UNCHANGED << srvUnchanged, srvState, cfgVars, reqVars >>

\* the TLS handshake completes within the handshake timeout
HandshakeDone(c) ==
    /\ Serving
    /\ conns[c].st = "handshaking"
    /\ conns[c].timer < server.TLSHandshakeTimeout
    /\ conns' = [ conns EXCEPT ![c] = [ FreeConn EXCEPT !.st = "idle" ] ]
    /\ UNCHANGED << srvUnchanged, srvState, cfgVars, reqVars >>

\* the handshake did not complete in time: aborted, the connection closed
HandshakeTimeout(c) ==
    /\ Serving
    /\ conns[c].st = "handshaking"
    /\ conns[c].timer >= server.TLSHandshakeTimeout
    /\ conns' = [ conns EXCEPT ![c] = [ @ EXCEPT !.st = "closed", !.why = "handshakeTimeout" ] ]
    /\ UNCHANGED << srvUnchanged, srvState, cfgVars, reqVars >>

\* a transport error, or the client going away, on a connection that has no
\* request in flight
ConnIOError(c) ==
    /\ Serving
    /\ conns[c].st \in { "handshaking", "idle" }
    /\ conns' = [ conns EXCEPT ![c] = [ FreeConn EXCEPT !.st = "closed", !.why = "ioError" ] ]
    /\ UNCHANGED << srvUnchanged, srvState, cfgVars, reqVars >>

\* a request arrives on a served connection
StartRequest(c) ==
    /\ Serving
    /\ srvState.st = "Listening"
    /\ conns[c].st = "idle"
    /\ conns' = [ conns EXCEPT ![c] = [ FreeConn EXCEPT !.st = "inflight" ] ]
    /\ UNCHANGED << srvUnchanged, srvState, cfgVars, reqVars >>

\* the handler returns and the response is written within the write timeout
RequestComplete(c) ==
    /\ Serving
    /\ conns[c].st = "inflight"
    /\ conns[c].timer < server.WriteTimeout
    /\ conns' = [ conns EXCEPT ![c] = [ @ EXCEPT !.st = "idle", !.timer = 0, !.why = "completed" ] ]
    /\ UNCHANGED << srvUnchanged, srvState, cfgVars, reqVars >>

\* the write timeout expires on a request in flight: the connection is closed
WriteTimeout(c) ==
    /\ Serving
    /\ conns[c].st = "inflight"
    /\ conns[c].timer >= server.WriteTimeout
    /\ conns' = [ conns EXCEPT ![c] = [ @ EXCEPT !.st = "closed", !.why = "writeTimeout" ] ]
    /\ UNCHANGED << srvUnchanged, srvState, cfgVars, reqVars >>

Timed(c) == conns[c].st \in { "handshaking", "inflight" }
Expired(c) ==
    \/ conns[c].st = "handshaking" /\ conns[c].timer >= server.TLSHandshakeTimeout
    \/ conns[c].st = "inflight" /\ conns[c].timer >= server.WriteTimeout

\* the time left before the deadline of a handshake or of a request in flight
Remaining(c) ==
    IF conns[c].st = "handshaking" THEN server.TLSHandshakeTimeout - conns[c].timer
    ELSE server.WriteTimeout - conns[c].timer

\* time passes, up to the earliest pending deadline: every running timer
\* advances by the same amount, and a deadline that is due fires before time
\* moves on
Tick ==
    /\ Serving
    /\ \E c \in Conns : Timed(c)
    /\ \A c \in Conns : ~Expired(c)
    /\ LET d == CHOOSE m \in { Remaining(c) : c \in { x \in Conns : Timed(x) } } :
                  \A c \in Conns : Timed(c) => m <= Remaining(c)
       IN conns' = [ c \in Conns |->
                       IF Timed(c) THEN [ conns[c] EXCEPT !.timer = @ + d ] ELSE conns[c] ]
    /\ UNCHANGED << srvUnchanged, srvState, cfgVars, reqVars >>

\* the context is cancelled: the listener stops accepting
ServerBeginShutdown ==
    /\ Serving
    /\ srvState.st = "Listening" /\ CtxDone
    /\ srvState' = [ st |-> "ShuttingDown", err |-> "context canceled" ]
    /\ UNCHANGED << srvUnchanged, conns, cfgVars, reqVars >>

\* an unrecoverable listener error ends the accept loop
ListenerError ==
    /\ Serving
    /\ srvState.st = "Listening"
    /\ srvState' = [ st |-> "ShuttingDown", err |-> "accept: listener error" ]
    /\ UNCHANGED << srvUnchanged, conns, cfgVars, reqVars >>

\* shutting down, a connection with no request in flight is closed
ShutdownCloseIdle(c) ==
    /\ Serving
    /\ srvState.st = "ShuttingDown"
    /\ conns[c].st = "idle"
    /\ conns' = [ conns EXCEPT ![c] = [ @ EXCEPT !.st = "closed" ] ]
    /\ UNCHANGED << srvUnchanged, srvState, cfgVars, reqVars >>

\* every connection is closed: Stopped, and ListenAndServe returns
ServerStopped ==
    /\ Serving
    /\ srvState.st = "ShuttingDown"
    /\ \A c \in Conns : ~Open(c)
    /\ srvState' = [ srvState EXCEPT !.st = "Stopped" ]
    /\ pc' = "listenReturned"
    /\ UNCHANGED << exit, log, urlOK, tlsOK, tlsConfig, bindOK, handler, server,
                    sigRegistered, notifyCtxDone, signalled, metrics, debugStarted, conns >>
    /\ UNCHANGED << cfgVars, reqVars >>


InitRun ==
    /\ env \in RunEnvs
    /\ args \in RunArgs
    /\ cfg = Unparsed
    /\ pc = "start"
    /\ exit = "running"
    /\ log = << >>
    /\ urlOK = "unknown" /\ tlsOK = "unknown" /\ bindOK = "unknown"
    /\ tlsConfig = NoTLSConf
    /\ handler = NoHandler
    /\ server = NoServer
    /\ sigRegistered = FALSE /\ notifyCtxDone = FALSE /\ signalled = FALSE
    /\ metrics = "none" /\ debugStarted = FALSE
    /\ srvState = [ st |-> "Created", err |-> Nil ]
    /\ conns = [ c \in Conns |-> FreeConn ]
    /\ rq = NoRequest /\ rw = NoResponse /\ reqNo = 0

NextRun ==
    \/ RunParseFlags \/ RunParseURL \/ RunLoadTLS \/ RunBuildHandler \/ RunNewServer
    \/ RunStartMetrics \/ MetricsServe \/ RunStartDebug \/ RunListen \/ RunLogReturn
    \/ Signal
    \/ \E c \in Conns : Accept(c)
    \/ \E c \in Conns : HandshakeDone(c)
    \/ \E c \in Conns : HandshakeTimeout(c)
    \/ \E c \in Conns : ConnIOError(c)
    \/ \E c \in Conns : StartRequest(c)
    \/ \E c \in Conns : RequestComplete(c)
    \/ \E c \in Conns : WriteTimeout(c)
    \/ Tick
    \/ ServerBeginShutdown \/ ListenerError
    \/ \E c \in Conns : ShutdownCloseIdle(c)
    \/ ServerStopped

Spec == InitRun /\ [][NextRun]_vars

\* the scheduler runs the server's goroutines: a pending shutdown is taken
FairSpec == Spec /\ WF_vars(ServerBeginShutdown)

(***************************************************************************)
(* The settings alone: every environment and command line within the       *)
(* bounds, resolved by the flag definitions of Run.                        *)
(***************************************************************************)
InitConfig ==
    /\ env \in Environments
    /\ args \in { [ given |-> g, version |-> v, bad |-> FALSE ] :
                    g \in GivenFlags, v \in BOOLEAN }
    /\ cfg = Unparsed
    /\ pc = "start"
    /\ exit = "running"
    /\ log = << >>
    /\ urlOK = "unknown" /\ tlsOK = "unknown" /\ bindOK = "unknown"
    /\ tlsConfig = NoTLSConf
    /\ handler = NoHandler
    /\ server = NoServer
    /\ sigRegistered = FALSE /\ notifyCtxDone = FALSE /\ signalled = FALSE
    /\ metrics = "none" /\ debugStarted = FALSE
    /\ srvState = [ st |-> "Created", err |-> Nil ]
    /\ conns = [ c \in Conns |-> FreeConn ]
    /\ rq = NoRequest /\ rw = NoResponse /\ reqNo = 0

NextConfig == RunParseFlags

SpecConfig == InitConfig /\ [][NextConfig]_vars


(***************************************************************************)
(* The request path alone: Run has built the handler, with the probe flag  *)
(* on or off, and the server is listening with one connection served.      *)
(***************************************************************************)
InitHandler ==
    /\ env = NoEnv
    /\ \E flag \in BOOLEAN :
         args = [ given |-> [ NoFlags EXCEPT !["enable-kubernetes-probe"] =
                                               [ ok |-> TRUE, val |-> flag ] ],
                  version |-> FALSE, bad |-> FALSE ]
    /\ cfg = [ parsed |-> TRUE, val |-> ResolveSettings ]
    /\ pc = "serving"
    /\ exit = "running"
    /\ log = << Line("metrics", "server listening"), Line("fingerproxy", "server listening") >>
    /\ urlOK = "ok" /\ tlsOK = "ok" /\ bindOK = "ok"
    /\ tlsConfig = DefaultTLSConfig(TRUE).conf
    /\ handler = SetProbe(GetReverseProxyHTTPHandler(cfg.val["forward-url"]),
                          cfg.val["enable-kubernetes-probe"])
    /\ server = DefaultProxyServer(handler, tlsConfig, cfg.val["verbose"])
    /\ sigRegistered = TRUE /\ notifyCtxDone = FALSE /\ signalled = FALSE
    /\ metrics = "bound" /\ debugStarted = TRUE
    /\ srvState = [ st |-> "Listening", err |-> Nil ]
    /\ conns = [ c \in Conns |-> IF c = 1 THEN [ FreeConn EXCEPT !.st = "idle" ] ELSE FreeConn ]
    /\ rq = NoRequest /\ rw = NoResponse /\ reqNo = 0

NextHandler ==
    \/ NewRequest \/ ServeProbeCheck \/ ServeInject \/ ServeForward
    \/ BackendResponds \/ BackendFails

SpecHandler == InitHandler /\ [][NextHandler]_vars


(***************************************************************************)
(* The claims.                                                             *)
(***************************************************************************)
IsTimeoutError(err) ==
    \E i \in DOMAIN err : err[i] \in { "context.DeadlineExceeded", "context.Canceled" }

\* C1: for every failure the forwarding mechanism reports, exactly one status
\* is written: 504 when the error is or wraps a deadline-exceeded or cancelled
\* error, 502 otherwise; the body stays empty, and the error goes to the log
\* with the target and the client address.
C1_ErrorClassification ==
    (rq.pc = "done" /\ rq.err # NoErr) =>
        /\ rw.status = << IF IsTimeoutError(rq.err) THEN 504 ELSE 502 >>
        /\ rw.body = << >>
        /\ Len(rq.log) >= 1
        /\ rq.log[Len(rq.log)] =
             Line("reverseproxy", << "proxy error", rq.url, rq.remoteAddr, rq.err >>)

C1_Witness ==
    /\ rq.pc = "done"
    /\ rq.err = << "url.Error", "context.Canceled" >>
    /\ rw.status = << 504 >>

\* C2: with probe bypass enabled, a request that matches the probe predicate
\* has no injector invoked, at any point of its handling.
C2_ProbeBypassesInjectors ==
    (cfg.val["enable-kubernetes-probe"] /\ rq.probe) =>
        /\ rq.order = << >>
        /\ rq.pc \in { "probeCheck", "done" }
        /\ rq.outHdr = rq.inHdr

C2_Witness ==
    /\ cfg.val["enable-kubernetes-probe"] /\ rq.probe
    /\ rq.pc = "done"
    /\ rw.status = << 200 >>

Invocations(name) == Cardinality({ i \in DOMAIN rq.order : rq.order[i] = name })
ConfiguredNames == [ i \in 1..Len(GetHeaderInjectors) |-> GetHeaderInjectors[i].name ]

\* C3: for a request that does not match the probe predicate, once the
\* pipeline is through every configured injector has been invoked exactly
\* once; a successful one has set its header to the computed value, a failing
\* one has left its header as it came, no other header has changed, and the
\* request has gone on to the backend.
C3_InjectorsOncePerRequest ==
    (~rq.probe /\ rq.pc \in { "forwarding", "done" }) =>
        /\ \A i \in 1..Len(GetHeaderInjectors) :
             LET hj == GetHeaderInjectors[i] IN
             /\ Invocations(hj.name) = 1
             /\ rq.fp[hj.fn].ok => rq.outHdr[hj.name] = rq.fp[hj.fn].val
             /\ ~rq.fp[hj.fn].ok => rq.outHdr[hj.name] = rq.inHdr[hj.name]
        /\ rq.outHdr["User-Agent"] = rq.inHdr["User-Agent"]
        /\ rq.forwarded

C3_Witness ==
    /\ ~rq.probe /\ rq.pc = "done"
    /\ rq.fp["JA3Fingerprint"].ok /\ ~rq.fp["JA4Fingerprint"].ok
    /\ rq.outHdr["X-JA3-Fingerprint"] = "fpB"
    /\ rq.outHdr["X-JA4-Fingerprint"] = Absent

\* C4: a request that does not match the probe predicate is handed to the
\* forwarding mechanism only after all configured injectors have run, in
\* their configured order; while injectors are pending it is not forwarded.
C4_InjectBeforeForward ==
    ~rq.probe =>
        /\ rq.forwarded => rq.order = ConfiguredNames
        /\ rq.pc = "inject" =>
             /\ ~rq.forwarded
             /\ Len(rq.order) <= Len(ConfiguredNames)
             /\ rq.order = SubSeq(ConfiguredNames, 1, Len(rq.order))

C4_Witness ==
    /\ ~rq.probe /\ rq.pc = "forwarding"
    /\ \E f \in FpFuncs : ~rq.fp[f].ok
    /\ \E f \in FpFuncs : rq.fp[f].ok

\* C5: once a termination signal has been delivered, no connection is
\* accepted in any later step, and the accept loop stops for good.
C5_AcceptStopsAfterSignal ==
    /\ [][ signalled => \A c \in Conns : conns[c].st = "free" => conns'[c].st = "free" ]_vars
    /\ (signalled ~> [](srvState.st # "Listening"))

C5_Witness ==
    /\ signalled /\ notifyCtxDone
    /\ srvState.st = "ShuttingDown"
    /\ \E c \in Conns : Open(c)
    /\ \E c \in Conns : conns[c].st = "free"

NothingStarted ==
    /\ srvState.st = "Created" /\ bindOK = "unknown"
    /\ metrics = "none" /\ ~debugStarted

LastLog == log[Len(log)]

\* C6: a failure of flag parsing, of the backend URL's parsing or of the TLS
\* key pair's loading is logged and ends the process with a non-zero status,
\* and neither the proxy listener nor the metrics nor the debug endpoint has
\* been started by then, nor at any earlier position of Run.
C6_StartupFailureBeforeSockets ==
    /\ pc \in { "start", "parseURL", "loadTLS" } => NothingStarted
    /\ (args.bad /\ pc # "start") =>
         /\ exit = "exit2" /\ NothingStarted
         /\ Len(log) >= 1 /\ LastLog = Line("stderr", "flag: parse error")
    /\ urlOK = "failed" =>
         /\ exit = "exit1" /\ NothingStarted
         /\ Len(log) >= 1 /\ LastLog = Line("fingerproxy", "fatal: url parse error")
    /\ tlsOK = "failed" =>
         /\ exit = "exit1" /\ NothingStarted
         /\ Len(log) >= 1 /\ LastLog = Line("fingerproxy", "fatal: tls load error")

C6_Witness ==
    /\ tlsOK = "failed" /\ exit = "exit1" /\ pc = "exited"

\* C7: a failure to bind the proxy listener is fatal: the server never
\* listens, the error is logged, the process exits with a non-zero status and
\* neither the metrics nor the debug endpoint is offered.
C7_BindFailureFatal ==
    (bindOK = "failed" /\ pc = "done") =>
        /\ srvState.st # "Listening"
        /\ LastLog = Line("fingerproxy", "listen: bind error")
        /\ exit \in { "exit1", "exit2" }
        /\ metrics = "none" /\ ~debugStarted

\* C8: a handshake never outlasts the configured handshake timeout: at the
\* deadline the connection can only be closed; and the step that aborts it
\* leaves every other connection, and the accept loop, as they were.
C8_HandshakeTimeoutIsolated ==
    [][ \A c \in Conns :
          /\ conns'[c].st = "handshaking" => conns'[c].timer <= TLSHandshakeTimeout
          /\ ( /\ conns[c].st = "handshaking"
               /\ conns[c].timer >= TLSHandshakeTimeout
               /\ conns'[c] # conns[c] ) => conns'[c].st = "closed"
          /\ ( /\ conns[c].st = "handshaking"
               /\ conns'[c].why = "handshakeTimeout" ) =>
                 /\ conns[c].timer = TLSHandshakeTimeout
                 /\ \A d \in Conns \ { c } : conns'[d] = conns[d]
                 /\ srvState' = srvState
                 /\ exit' = exit /\ pc' = pc
      ]_vars

C8_Witness ==
    \E c, d \in Conns :
        /\ c # d
        /\ conns[c].st = "closed" /\ conns[c].why = "handshakeTimeout"
        /\ conns[d].st = "inflight" /\ conns[d].timer > 0
        /\ srvState.st = "Listening" /\ ~signalled

\* C9: a request in flight when the termination signal arrives is not cut
\* off: it ends by completing or by the write timeout, at the configured
\* number of seconds; the server is Stopped and Run over only after that; and
\* no connection is accepted once the signal has arrived.
C9_InFlightSurvivesSignal ==
    /\ [] ( \A c \in Conns : conns[c].sig =>
              /\ conns[c].why # "cutoff"
              /\ conns[c].st # "inflight" => conns[c].why \in { "completed", "writeTimeout" }
              /\ conns[c].why = "writeTimeout" => conns[c].timer = HTTPWriteTimeout
              /\ (srvState.st = "Stopped" \/ exit # "running") => conns[c].st # "inflight" )
    /\ [][ signalled => \A c \in Conns : conns[c].st = "free" => conns'[c].st = "free" ]_vars

C9_Witness ==
    /\ exit = "returned" /\ srvState.st = "Stopped"
    /\ \E c \in Conns : conns[c].sig /\ conns[c].why = "completed"
    /\ \E c \in Conns : conns[c].sig /\ conns[c].why = "writeTimeout"

\* the defaults of the settings, as documented
DocumentedDefault(f) ==
    CASE f = "listen-addr" -> << ":", "4", "4", "3" >>
      [] f = "forward-url" ->
           << "h", "t", "t", "p", ":", "/", "/", "l", "o", "c", "a", "l", "h",
              "o", "s", "t", ":", "8", "0" >>
      [] f = "cert-filename" -> << "t", "l", "s", ".", "c", "r", "t" >>
      [] f = "certkey-filename" -> << "t", "l", "s", ".", "k", "e", "y" >>
      [] f = "metrics-listen-addr" -> << ":", "9", "0", "3", "5" >>
      [] f = "enable-kubernetes-probe" -> TRUE
      [] f = "verbose" -> FALSE

\* s equals the lower-case word w up to the case of its letters
EqualFold(s, w) ==
    /\ Len(s) = Len(w)
    /\ \A i \in 1..Len(s) :
         s[i] = w[i] \/ (s[i] \in DOMAIN LowerOf /\ LowerOf[s[i]] = w[i])

Resolved(f) ==
    IF args.given[f].ok THEN args.given[f].val
    ELSE IF ~env[EnvKey(f)].ok THEN DocumentedDefault(f)
    ELSE IF f \in StrFlags THEN env[EnvKey(f)].val
    ELSE IF EqualFold(env[EnvKey(f)].val, sTrue) THEN TRUE
    ELSE IF EqualFold(env[EnvKey(f)].val, sFalse) THEN FALSE
    ELSE DocumentedDefault(f)

\* C10: every setting resolves to the flag's value when the flag is given,
\* else to the environment variable's value when it is set, else to the
\* documented default; a boolean setting whose environment value is neither
\* "true" nor "false" in any letter case resolves to the default.
C10_SettingResolution ==
    cfg.parsed => \A f \in Flags : cfg.val[f] = Resolved(f)

C10_Witness ==
    /\ cfg.parsed
    /\ env["VERBOSE"] = [ ok |-> TRUE, val |-> sTRUE ]
    /\ ~args.given["verbose"].ok
    /\ cfg.val["verbose"] = TRUE

====
